---- MODULE Spec2Model ----
(***************************************************************************)
(* Model of esp-idf-hal's src/interrupt.rs on a dual-core (not esp32c3)    *)
(* target: the cross-core critical section and its guard, `free`, the      *)
(* RawMutex, the ISR yielder slot with `do_yield`, and the task            *)
(* notification wrappers.                                                  *)
(*                                                                         *)
(* The FreeRTOS primitives the file calls (vPortEnterCritical /            *)
(* xPortEnterCriticalTimeout, vPortExitCritical, xPortInIsrContext,        *)
(* xTaskGenericNotify[FromISR], xTaskNotifyWait) are modelled at the call  *)
(* sites by their documented kernel behaviour.                             *)
(***************************************************************************)
EXTENDS Integers, Sequences, FiniteSets, TLC

VARIABLES
    \* ---- critical sections -------------------------------------------
    mux,            \* portMUX_TYPE of every CriticalSection: [owner, count]
    nesting,        \* port_uxCriticalNesting[core]
    intMask,        \* per core: TRUE when interrupt delivery is masked
    savedInt,       \* port_uxOldInterruptState[core]
    oldLevel,       \* per core: xOldInterruptLevel of the enter in progress
    guards,         \* per core: stack of live CriticalSectionGuard (the cs each borrows)
    pc,             \* per core: position of the code running on it
    target,         \* per core: the cs whose enter is in progress
    counter,        \* shared counter protected by the Shared section
    tmp,            \* per core: value read by the increment in progress
    incs,           \* per core: increments completed
    entered,        \* per core: sections entered since the core's depth was 0 (history)
    freePre,        \* per core: nesting, mask and depth when its free was called (history)
    \* ---- ISR context and the yielder slot ------------------------------
    inIsr,          \* per core: xPortInIsrContext() != 0
    ISR_YIELDER,    \* the static AtomicPtr: NULL or a yield function
    last,           \* per core: the last yielder operation it ran (history)
    lastSet,        \* per core: <<v>> when its previous operation in this ISR was
                    \* set_isr_yielder(v) in ISR context, else <<>> (history)
    \* ---- task notification ---------------------------------------------
    ulNotifiedValue, \* the notified task's notification word (kernel TCB)
    ucNotifyState,  \* its notify state (kernel TCB)
    tpc,            \* position of the notified task
    inAny,          \* TRUE while the task is inside wait_any_notification
    dur,            \* duration of the wait_notification in progress
    wret,           \* what the task's last wait_notification returned
    timedOut,       \* the wait in progress ran out of ticks (history)
    anyDone,        \* the task's last call was wait_any_notification and it returned
    pend,           \* OR of the bits notified since the last successful wait (history)
    since,          \* a notify happened since the last successful wait (history)
    pcN,            \* per core: position inside notify
    wokenN,         \* per core: higher_prio_task_woken of the notify in progress
    lastNotify,     \* the last notify that returned (history)
    \* ---- RawMutex ------------------------------------------------------
    locked,         \* per core: the contexts ("task" / "isr") whose lock of the
                    \* mutex has returned and whose unlock has not been called
    \* ---- ISRs that save and restore the yielder slot -------------------
    frames,         \* per core: stack of [mine, prev] of the overrides its ISR
                    \* has installed and not yet restored
    cap,            \* per core: the capture_yield_signal call of its ISR
    flag            \* per core: the boolean its recording override sets

csVars == <<mux, nesting, intMask, savedInt, oldLevel, guards, pc, target,
            counter, tmp, incs, entered, freePre>>

yVars == <<inIsr, ISR_YIELDER, last, lastSet>>

nVars == <<ulNotifiedValue, ucNotifyState, tpc, inAny, dur, wret, timedOut, anyDone,
           pend, since, pcN, wokenN, lastNotify>>

mVars == <<locked>>

iVars == <<frames, cap, flag>>

vars == <<csVars, yVars, nVars, mVars, iVars>>

----------------------------------------------------------------------------
(* Bounds *)
MaxDepth == 3
MaxFrames == 2
MaxIncs == 2

Cores == {0, 1}

(* CriticalSection instances: the static ones, and the one `free` builds   *)
(* in its own frame on each call (one frame per core at a time).           *)
StaticCS == {"A", "B"}
Shared == "A"
Local(c) == IF c = 0 THEN "L0" ELSE "L1"
AllCS == StaticCS \cup {Local(c) : c \in Cores}

portMUX_FREE_VAL == -1

CriticalSection_new == [owner |-> portMUX_FREE_VAL, count |-> 0]

Range(s) == {s[i] : i \in 1..Len(s)}
Occurrences(s, x) == Cardinality({i \in 1..Len(s) : s[i] = x})

----------------------------------------------------------------------------
(* The kernel spinlock inside vPortEnterCritical / vPortExitCritical: it   *)
(* is recursive per core.                                                  *)
spinlock_can_acquire_non_recursive(m, c) ==
    mux[m].owner = portMUX_FREE_VAL

spinlock_can_acquire(m, c) ==
    mux[m].owner = portMUX_FREE_VAL \/ mux[m].owner = c

spinlock_acquire(m, c) ==
    [mux EXCEPT ![m] = [owner |-> c, count |-> mux[m].count + 1]]

spinlock_release(m, c) ==
    IF mux[m].owner # c THEN mux
    ELSE IF mux[m].count = 1
         THEN [mux EXCEPT ![m] = [owner |-> portMUX_FREE_VAL, count |-> 0]]
         ELSE [mux EXCEPT ![m].count = mux[m].count - 1]

(* cs.0.get(): the portMUX a CriticalSection hands to the kernel.          *)
cs_mux_per_core(c, cs) == Local(c)
cs_mux_single(c, cs) == Shared
cs_mux(c, cs) == cs

(* enter(cs), first half: the kernel masks interrupts on the calling core  *)
(* and remembers the previous level, then starts spinning on the mux.      *)
enter_begin(c, cs, spinpc) ==
    /\ oldLevel' = [oldLevel EXCEPT ![c] = intMask[c]]
    /\ intMask' = [intMask EXCEPT ![c] = TRUE]
    /\ target' = [target EXCEPT ![c] = cs]
    /\ pc' = [pc EXCEPT ![c] = spinpc]

(* enter(cs), second half: the spin ends when the mux is free or already   *)
(* owned by this core; the core's nesting count goes up and the outermost  *)
(* entry saves the interrupt level. CriticalSection::enter then returns a  *)
(* guard borrowing cs.                                                     *)
enter_acquire(c, nextpc) ==
    LET cs == target[c]
        m == cs_mux(c, cs)
    IN  /\ spinlock_can_acquire(m, c)
        /\ mux' = spinlock_acquire(m, c)
        /\ nesting' = [nesting EXCEPT ![c] = @ + 1]
        /\ savedInt' = [savedInt EXCEPT ![c] = IF nesting[c] = 0 THEN oldLevel[c] ELSE @]
        /\ guards' = [guards EXCEPT ![c] = Append(@, cs)]
        /\ entered' = [entered EXCEPT ![c] = @ \cup {cs}]
        /\ pc' = [pc EXCEPT ![c] = nextpc]

(* exit(cs): release the mux once, lower the nesting count, and restore    *)
(* the saved interrupt level when the count reaches 0.                     *)
exit(c, cs) ==
    LET m == cs_mux(c, cs)
    IN  /\ mux' = spinlock_release(m, c)
        /\ nesting' = [nesting EXCEPT ![c] = IF @ > 0 THEN @ - 1 ELSE @]
        /\ intMask' = [intMask EXCEPT ![c] = IF nesting[c] = 1 THEN savedInt[c] ELSE @]

(* The section a guard releases on drop: self.0                            *)
guard_cs_first(g) == Shared
guard_cs(g) == g

----------------------------------------------------------------------------
(* Actions of the critical-section specification *)

(* CriticalSection::enter on a static instance, up to the spin.            *)
Enter(c, cs) ==
    /\ UNCHANGED freePre
    /\ pc[c] = "run"
    /\ Len(guards[c]) < MaxDepth
    /\ enter_begin(c, cs, "spin")
    /\ UNCHANGED <<yVars, nVars, mVars, iVars>>
    /\ UNCHANGED <<mux, nesting, savedInt, guards, counter, tmp, incs, entered>>

(* The spin of CriticalSection::enter succeeds and the guard is returned.  *)
Acquire(c) ==
    /\ UNCHANGED freePre
    /\ pc[c] = "spin"
    /\ enter_acquire(c, "run")
    /\ UNCHANGED <<yVars, nVars, mVars, iVars>>
    /\ UNCHANGED <<intMask, oldLevel, target, counter, tmp, incs>>

(* CriticalSectionGuard::drop of the innermost live guard.                 *)
Drop(c) ==
    /\ UNCHANGED freePre
    /\ pc[c] = "run"
    /\ guards[c] # <<>>
    /\ LET n == Len(guards[c])
       IN  /\ exit(c, guard_cs(guards[c][n]))
           /\ guards' = [guards EXCEPT ![c] = SubSeq(@, 1, n - 1)]
           /\ entered' = [entered EXCEPT ![c] = IF n = 1 THEN {} ELSE @]
    /\ UNCHANGED <<yVars, nVars, mVars, iVars>>
    /\ UNCHANGED <<savedInt, oldLevel, pc, target, counter, tmp, incs>>

(* A client increments the shared counter inside the Shared section: a     *)
(* plain read followed by a plain write.                                   *)
IncRead(c) ==
    /\ UNCHANGED freePre
    /\ pc[c] = "run"
    /\ Shared \in Range(guards[c])
    /\ incs[c] < MaxIncs
    /\ tmp' = [tmp EXCEPT ![c] = counter]
    /\ pc' = [pc EXCEPT ![c] = "inc"]
    /\ UNCHANGED <<yVars, nVars, mVars, iVars>>
    /\ UNCHANGED <<mux, nesting, intMask, savedInt, oldLevel, guards, target,
                   counter, incs, entered>>

IncWrite(c) ==
    /\ UNCHANGED freePre
    /\ pc[c] = "inc"
    /\ counter' = tmp[c] + 1
    /\ tmp' = [tmp EXCEPT ![c] = 0]
    /\ incs' = [incs EXCEPT ![c] = @ + 1]
    /\ pc' = [pc EXCEPT ![c] = "run"]
    /\ UNCHANGED <<yVars, nVars, mVars, iVars>>
    /\ UNCHANGED <<mux, nesting, intMask, savedInt, oldLevel, guards, target, entered>>

(* free(f): `let cs = CriticalSection::new(); let _guard = cs.enter();`    *)
free_cs(c) == Local(c)

FreeCall(c) ==
    /\ pc[c] = "run"
    /\ freePre' = [freePre EXCEPT ![c] = [nesting |-> nesting[c], mask |-> intMask[c],
                                          depth |-> Len(guards[c])]]
    /\ Len(guards[c]) < MaxDepth
    /\ mux' = [mux EXCEPT ![free_cs(c)] = CriticalSection_new]
    /\ enter_begin(c, free_cs(c), "free_spin")
    /\ UNCHANGED <<yVars, nVars, mVars, iVars>>
    /\ UNCHANGED <<nesting, savedInt, guards, counter, tmp, incs, entered>>

FreeAcquire(c) ==
    /\ UNCHANGED freePre
    /\ pc[c] = "free_spin"
    /\ enter_acquire(c, "free_f")
    /\ UNCHANGED <<yVars, nVars, mVars, iVars>>
    /\ UNCHANGED <<intMask, oldLevel, target, counter, tmp, incs>>

(* f() runs inside free: it returns its value or panics and unwinds.       *)
FreeRunF(c) ==
    /\ pc[c] = "free_f"
    /\ \E outcome \in {"free_ret", "free_unwind"} : pc' = [pc EXCEPT ![c] = outcome]
    /\ UNCHANGED freePre
    /\ UNCHANGED <<yVars, nVars, mVars, iVars>>
    /\ UNCHANGED <<mux, nesting, intMask, savedInt, oldLevel, guards, target,
                   counter, tmp, incs, entered>>

(* The end of free's scope, on return and on unwinding alike: _guard is    *)
(* dropped.                                                                *)
free_drop_forgotten(c) ==
    LET n == Len(guards[c])
    IN  /\ guards' = [guards EXCEPT ![c] = SubSeq(@, 1, n - 1)]
        /\ entered' = [entered EXCEPT ![c] = IF n = 1 THEN {} ELSE @]
        /\ UNCHANGED <<mux, nesting, intMask>>

free_drop(c) ==
    LET n == Len(guards[c])
    IN  /\ exit(c, guard_cs(guards[c][n]))
        /\ guards' = [guards EXCEPT ![c] = SubSeq(@, 1, n - 1)]
        /\ entered' = [entered EXCEPT ![c] = IF n = 1 THEN {} ELSE @]

NoFree == [nesting |-> 0, mask |-> FALSE, depth |-> 0]

FreeReturn(c) ==
    /\ pc[c] \in {"free_ret", "free_unwind"}
    /\ free_drop(c)
    /\ freePre' = [freePre EXCEPT ![c] = NoFree]
    /\ pc' = [pc EXCEPT ![c] = "run"]
    /\ UNCHANGED <<yVars, nVars, mVars, iVars>>
    /\ UNCHANGED <<savedInt, oldLevel, target, counter, tmp, incs>>

----------------------------------------------------------------------------
(* ISR context, the yielder slot and do_yield *)

NULL == 0
Yielders == {1, 2}

None == <<>>
Some(x) == <<x>>
Options == {None} \cup {Some(f) : f \in Yielders}

(* active(): xPortInIsrContext() != 0 on the calling core.                 *)
active(c) == inIsr[c]

(* Option<unsafe fn()> to raw pointer and back (the transmutes).           *)
to_ptr(yielder) == IF yielder # None THEN yielder[1] ELSE NULL
from_ptr(ptr) == IF ptr = NULL THEN None ELSE Some(ptr)

get_isr_yielder_none(c) == None
get_isr_yielder_any_context(c) == from_ptr(ISR_YIELDER)
get_isr_yielder(c) ==
    IF active(c) THEN from_ptr(ISR_YIELDER) ELSE None

(* set_isr_yielder: the value the swap leaves in the slot, and the value   *)
(* the function returns.                                                   *)
set_isr_yielder_slot_any_context(c, yielder) == to_ptr(yielder)

set_isr_yielder_slot(c, yielder) ==
    IF active(c) THEN to_ptr(yielder) ELSE ISR_YIELDER

set_isr_yielder_ret(c, yielder) ==
    IF active(c) THEN from_ptr(ISR_YIELDER) ELSE None

(* The calls do_yield makes. The kernel's ISR-context yield is             *)
(* vPortYieldFromISR, vPortEvaluateYieldFromISR(0) or _frxt_setup_switch,  *)
(* depending on the build; one name stands for the three.                  *)
Call(fn, arg) == [fn |-> fn, arg |-> arg]
KernelIsrYield == Call("vPortYieldFromISR", NULL)
KernelTaskYield == Call("vPortYield", NULL)

do_yield(c) ==
    IF active(c)
    THEN LET yielder == get_isr_yielder(c)
         IN  IF yielder # None
             THEN {Call("yielder", yielder[1])}
             ELSE {KernelIsrYield}
    ELSE {KernelTaskYield}

NoOp == [op |-> "none", isr |-> FALSE, slot |-> NULL, ret |-> None,
         after |-> <<>>, calls |-> {}]

(* An interrupt is taken on core c / its handler returns.                  *)
IsrEnter(c) ==
    /\ ~inIsr[c]
    /\ inIsr' = [inIsr EXCEPT ![c] = TRUE]
    /\ lastSet' = [lastSet EXCEPT ![c] = <<>>]
    /\ UNCHANGED <<csVars, nVars, mVars, iVars>>
    /\ UNCHANGED <<ISR_YIELDER, last>>

IsrExit(c) ==
    /\ inIsr[c]
    /\ inIsr' = [inIsr EXCEPT ![c] = FALSE]
    /\ lastSet' = [lastSet EXCEPT ![c] = <<>>]
    /\ UNCHANGED <<csVars, nVars, mVars, iVars>>
    /\ UNCHANGED <<ISR_YIELDER, last>>

(* The code running on core c calls set_isr_yielder(yielder).              *)
SetYielder(c, yielder) ==
    /\ ISR_YIELDER' = set_isr_yielder_slot(c, yielder)
    /\ last' = [last EXCEPT ![c] =
                  [op |-> "set", isr |-> inIsr[c], slot |-> ISR_YIELDER,
                   ret |-> set_isr_yielder_ret(c, yielder), after |-> <<>>,
                   calls |-> {}]]
    /\ lastSet' = [lastSet EXCEPT ![c] = IF inIsr[c] THEN <<yielder>> ELSE <<>>]
    /\ UNCHANGED <<csVars, nVars, mVars, iVars>>
    /\ UNCHANGED <<inIsr>>

(* The code running on core c calls get_isr_yielder().                     *)
GetYielder(c) ==
    /\ last' = [last EXCEPT ![c] =
                  [op |-> "get", isr |-> inIsr[c], slot |-> ISR_YIELDER,
                   ret |-> get_isr_yielder(c), after |-> lastSet[c],
                   calls |-> {}]]
    /\ lastSet' = [lastSet EXCEPT ![c] = <<>>]
    /\ UNCHANGED <<csVars, nVars, mVars, iVars>>
    /\ UNCHANGED <<inIsr, ISR_YIELDER>>

(* The code running on core c calls task::do_yield().                      *)
DoYield(c) ==
    /\ last' = [last EXCEPT ![c] =
                  [op |-> "yield", isr |-> inIsr[c], slot |-> ISR_YIELDER,
                   ret |-> None, after |-> lastSet[c], calls |-> do_yield(c)]]
    /\ lastSet' = [lastSet EXCEPT ![c] = <<>>]
    /\ UNCHANGED <<csVars, nVars, mVars, iVars>>
    /\ UNCHANGED <<inIsr, ISR_YIELDER>>

InitY ==
    /\ inIsr = [c \in Cores |-> FALSE]
    /\ ISR_YIELDER = NULL
    /\ last = [c \in Cores |-> NoOp]
    /\ lastSet = [c \in Cores |-> <<>>]

----------------------------------------------------------------------------
(* RawMutex: lock is enter(&self.0), unlock is exit(&self.0) *)

(* The CriticalSection inside the RawMutex.                                *)
RawMutex_new == Shared

context(c) == IF active(c) THEN "isr" ELSE "task"

(* What lock leaves behind when it returns: enter's acquisition, which it  *)
(* does not undo (no guard is built, so nothing is dropped).               *)
lock_return_releases(c) ==
    /\ intMask' = [intMask EXCEPT ![c] = IF nesting[c] = 0 THEN oldLevel[c] ELSE @]
    /\ UNCHANGED <<mux, nesting, savedInt>>

lock_return(c) ==
    /\ mux' = spinlock_acquire(cs_mux(c, RawMutex_new), c)
    /\ nesting' = [nesting EXCEPT ![c] = @ + 1]
    /\ savedInt' = [savedInt EXCEPT ![c] = IF nesting[c] = 0 THEN oldLevel[c] ELSE @]
    /\ UNCHANGED intMask

(* RawMutex::lock, up to the spin of enter.                                *)
Lock(c) ==
    /\ pc[c] = "run"
    /\ Len(locked[c]) < MaxDepth
    /\ enter_begin(c, RawMutex_new, "lock_spin")
    /\ UNCHANGED <<mux, nesting, savedInt, guards, counter, tmp, incs, entered, freePre>>
    /\ UNCHANGED <<yVars, nVars, mVars, iVars>>

(* The spin of enter succeeds and lock returns.                            *)
LockReturn(c) ==
    /\ pc[c] = "lock_spin"
    /\ spinlock_can_acquire(cs_mux(c, RawMutex_new), c)
    /\ lock_return(c)
    /\ locked' = [locked EXCEPT ![c] = Append(@, context(c))]
    /\ pc' = [pc EXCEPT ![c] = "run"]
    /\ UNCHANGED <<oldLevel, guards, target, counter, tmp, incs, entered, freePre>>
    /\ UNCHANGED <<yVars, nVars, iVars>>

(* RawMutex::unlock by the context that made the innermost lock.           *)
Unlock(c) ==
    /\ pc[c] = "run"
    /\ locked[c] # <<>>
    /\ locked[c][Len(locked[c])] = context(c)
    /\ exit(c, RawMutex_new)
    /\ locked' = [locked EXCEPT ![c] = SubSeq(@, 1, Len(@) - 1)]
    /\ UNCHANGED <<savedInt, oldLevel, guards, pc, target, counter, tmp, incs, entered,
                   freePre>>
    /\ UNCHANGED <<yVars, nVars, iVars>>

(* An interrupt is delivered on core c: only while its interrupts are not  *)
(* masked. Its handler returns after unlocking what it locked.             *)
MIsrEnter(c) ==
    /\ ~inIsr[c]
    /\ ~intMask[c]
    /\ pc[c] = "run"
    /\ inIsr' = [inIsr EXCEPT ![c] = TRUE]
    /\ UNCHANGED <<ISR_YIELDER, last, lastSet>>
    /\ UNCHANGED <<csVars, nVars, mVars, iVars>>

MIsrExit(c) ==
    /\ inIsr[c]
    /\ pc[c] = "run"
    /\ "isr" \notin Range(locked[c])
    /\ inIsr' = [inIsr EXCEPT ![c] = FALSE]
    /\ UNCHANGED <<ISR_YIELDER, last, lastSet>>
    /\ UNCHANGED <<csVars, nVars, mVars, iVars>>

InitM ==
    locked = [c \in Cores |-> <<>>]

----------------------------------------------------------------------------
(* ISRs that use the slot in save/restore pairs, and capture_yield_signal  *)

(* The recording override of the capture_yield_signal call made on core c: *)
(* a yield function that only sets that call's flag.                       *)
Recorder(c) == 3 + c

(* The override an ordinary ISR of core c installs.                        *)
Override(c) == 1 + c

NoCapture == [state |-> "idle", depth |-> 0, yielded |-> FALSE, kernel |-> FALSE]

(* What capture_yield_signal returns when cb is done: the flag.            *)
capture_yield_signal(c) == flag[c]

Running == \A c \in Cores : cap[c].state # "aborted"

(* prev = set_isr_yielder(Some(mine)), pushed on the ISR's stack.          *)
install(c, mine) ==
    /\ ISR_YIELDER' = set_isr_yielder_slot(c, Some(mine))
    /\ frames' = [frames EXCEPT ![c] =
                    Append(@, [mine |-> mine, prev |-> set_isr_yielder_ret(c, Some(mine))])]

(* set_isr_yielder(prev) of the innermost pair.                            *)
restore(c) ==
    LET n == Len(frames[c])
    IN  /\ ISR_YIELDER' = set_isr_yielder_slot(c, frames[c][n].prev)
        /\ frames' = [frames EXCEPT ![c] = SubSeq(@, 1, n - 1)]

HandlerEnter(c) ==
    /\ Running
    /\ ~inIsr[c]
    /\ inIsr' = [inIsr EXCEPT ![c] = TRUE]
    /\ UNCHANGED <<ISR_YIELDER, last, lastSet>>
    /\ UNCHANGED <<csVars, nVars, mVars, iVars>>

(* The handler returns once it has restored everything it installed.       *)
HandlerExit(c) ==
    /\ Running
    /\ inIsr[c]
    /\ frames[c] = <<>>
    /\ inIsr' = [inIsr EXCEPT ![c] = FALSE]
    /\ UNCHANGED <<ISR_YIELDER, last, lastSet, iVars>>
    /\ UNCHANGED <<csVars, nVars, mVars>>

(* The ISR saves the previous override and installs its own.               *)
Install(c) ==
    /\ Running
    /\ inIsr[c]
    /\ Len(frames[c]) < MaxFrames
    /\ install(c, Override(c))
    /\ UNCHANGED <<inIsr, last, lastSet, cap, flag>>
    /\ UNCHANGED <<csVars, nVars, mVars>>

(* Nested work of the ISR asks for a yield: task::do_yield(). A recording  *)
(* override that gets called sets its flag. While a capture's cb runs on   *)
(* the core, the capture notes a yield cb makes with no override of its    *)
(* own installed, and any kernel yield made.                               *)
NestedWork(c) ==
    /\ Running
    /\ inIsr[c]
    /\ LET calls == do_yield(c)
       IN  /\ flag' = [k \in Cores |->
                          flag[k] \/ Call("yielder", Recorder(k)) \in calls]
           /\ cap' = [cap EXCEPT ![c] =
                        IF @.state = "cb"
                        THEN [@ EXCEPT !.yielded = @ \/ Len(frames[c]) = cap[c].depth,
                                       !.kernel = @ \/ KernelIsrYield \in calls]
                        ELSE @]
    /\ UNCHANGED <<inIsr, ISR_YIELDER, last, lastSet, frames>>
    /\ UNCHANGED <<csVars, nVars, mVars>>

(* The ISR restores the override it saved (not the capture's own pair).    *)
Restore(c) ==
    /\ Running
    /\ inIsr[c]
    /\ frames[c] # <<>>
    /\ ~(cap[c].state = "cb" /\ Len(frames[c]) = cap[c].depth)
    /\ restore(c)
    /\ UNCHANGED <<inIsr, last, lastSet, cap, flag>>
    /\ UNCHANGED <<csVars, nVars, mVars>>

(* capture_yield_signal(cb) in ISR context: clear the flag, install the    *)
(* recording override, run cb.                                             *)
CaptureCall(c) ==
    /\ Running
    /\ inIsr[c]
    /\ cap[c].state = "idle"
    /\ Len(frames[c]) < MaxFrames
    /\ install(c, Recorder(c))
    /\ flag' = [flag EXCEPT ![c] = FALSE]
    /\ cap' = [cap EXCEPT ![c] = [NoCapture EXCEPT !.state = "cb",
                                                   !.depth = Len(frames[c]) + 1]]
    /\ UNCHANGED <<inIsr, last, lastSet>>
    /\ UNCHANGED <<csVars, nVars, mVars>>

(* cb has returned: restore the previous override, return the flag.        *)
CaptureReturn(c) ==
    /\ Running
    /\ inIsr[c]
    /\ cap[c].state = "cb"
    /\ Len(frames[c]) = cap[c].depth
    /\ restore(c)
    /\ cap' = [cap EXCEPT ![c] = NoCapture]
    /\ UNCHANGED <<inIsr, last, lastSet, flag>>
    /\ UNCHANGED <<csVars, nVars, mVars>>

(* capture_yield_signal(cb) in task context: the call panics.              *)
CaptureAbort(c) ==
    /\ Running
    /\ ~inIsr[c]
    /\ cap' = [cap EXCEPT ![c] = [NoCapture EXCEPT !.state = "aborted"]]
    /\ UNCHANGED <<yVars, frames, flag>>
    /\ UNCHANGED <<csVars, nVars, mVars>>

InitI ==
    /\ frames = [c \in Cores |-> <<>>]
    /\ cap = [c \in Cores |-> NoCapture]
    /\ flag = [c \in Cores |-> FALSE]

----------------------------------------------------------------------------
(* Task notification: one notified task, notifiers on both cores *)

NotifBits == 2
AllBits == 2^NotifBits - 1
Words == 0..AllBits

RECURSIVE Or(_, _)
Or(a, b) ==
    IF a = 0 THEN b
    ELSE IF b = 0 THEN a
    ELSE (IF a % 2 = 1 \/ b % 2 = 1 THEN 1 ELSE 0) + 2 * Or(a \div 2, b \div 2)

RECURSIVE AndNot(_, _)
AndNot(a, mask) ==
    IF a = 0 THEN 0
    ELSE (IF a % 2 = 1 /\ mask % 2 = 0 THEN 1 ELSE 0) + 2 * AndNot(a \div 2, mask \div 2)

(* TickType::from(Option<Duration>): no duration waits for ever.           *)
(* portMAX_DELAY is the largest TickType_t; here the largest TLC integer.  *)
portMAX_DELAY == 2147483647
Durations == {None, Some(0), Some(1)}
TickTypeFrom(duration) == IF duration = None THEN portMAX_DELAY ELSE duration[1]

(* What notify passes to xTaskGenericNotify[FromISR], and what the kernel  *)
(* does with the word for each action.                                     *)
notify_action_overwrite == "eSetValueWithOverwrite"
notify_action == "eSetBits"

kernel_notify_value(word, value, action) ==
    CASE action = "eSetBits" -> Or(word, value)
      [] action = "eSetValueWithOverwrite" -> value
      [] OTHER -> word

(* notify, after the kernel call: do_yield() when a higher priority task   *)
(* was woken (ISR branch only).                                            *)
notify_calls_always(c, woken) == do_yield(c)
notify_calls(c, woken) ==
    IF active(c) /\ woken THEN do_yield(c) ELSE {}

(* Before the task's first wait_notification has returned.                 *)
NoReturn == <<0, 0>>

(* xTaskNotifyWait(0, u32::MAX, &mut notification, ticks)                  *)
wait_clear_on_entry == 0
wait_clear_on_exit == AllBits

wait_notification_ret_always_some(notified, notification) == Some(notification)
wait_notification_ret(notified, notification) ==
    IF notified THEN Some(notification) ELSE None

(* wait_any_notification: the test that ends its loop.                     *)
wait_any_break_on_any(r) == r # None
wait_any_break(r) == r # None /\ r[1] # 0

(* notify(task, notification) on core c, the kernel call: the word is      *)
(* updated, the task is marked notified and, if it was waiting, unblocked. *)
(* The ISR variant reports whether a higher priority task was woken, which *)
(* can only be the case when the task was waiting.                         *)
NotifyCall(c, notification) ==
    /\ pcN[c] = "idle"
    /\ pcN' = [pcN EXCEPT ![c] = "called"]
    /\ ulNotifiedValue' = kernel_notify_value(ulNotifiedValue, notification, notify_action)
    /\ ucNotifyState' = "RECEIVED"
    /\ tpc' = IF ucNotifyState = "WAITING" /\ tpc = "blocked" THEN "ready" ELSE tpc
    /\ \E woken \in (IF active(c) /\ ucNotifyState = "WAITING" THEN BOOLEAN ELSE {FALSE}) :
          wokenN' = [wokenN EXCEPT ![c] = woken]
    /\ pend' = Or(pend, notification)
    /\ since' = TRUE
    /\ UNCHANGED <<inAny, dur, wret, timedOut, anyDone, lastNotify>>
    /\ UNCHANGED <<csVars, yVars, mVars, iVars>>

(* notify, the rest: the yield when one is due, and the return.            *)
NotifyReturn(c) ==
    /\ pcN[c] = "called"
    /\ lastNotify' = [isr |-> active(c), woken |-> wokenN[c],
                      calls |-> notify_calls(c, wokenN[c])]
    /\ pcN' = [pcN EXCEPT ![c] = "idle"]
    /\ wokenN' = [wokenN EXCEPT ![c] = FALSE]
    /\ UNCHANGED <<ulNotifiedValue, ucNotifyState, tpc, inAny, dur, wret, timedOut,
                   anyDone, pend, since>>
    /\ UNCHANGED <<csVars, yVars, mVars, iVars>>

(* An interrupt is taken on core c / its handler returns, between calls.   *)
NIsrEnter(c) ==
    /\ ~inIsr[c]
    /\ pcN[c] = "idle"
    /\ inIsr' = [inIsr EXCEPT ![c] = TRUE]
    /\ UNCHANGED <<ISR_YIELDER, last, lastSet>>
    /\ UNCHANGED <<csVars, nVars, mVars, iVars>>

NIsrExit(c) ==
    /\ inIsr[c]
    /\ pcN[c] = "idle"
    /\ inIsr' = [inIsr EXCEPT ![c] = FALSE]
    /\ UNCHANGED <<ISR_YIELDER, last, lastSet>>
    /\ UNCHANGED <<csVars, nVars, mVars, iVars>>

(* The handler on core c installs or removes an override.                  *)
NSetYielder(c, yielder) ==
    /\ inIsr[c]
    /\ pcN[c] = "idle"
    /\ ISR_YIELDER' = set_isr_yielder_slot(c, yielder)
    /\ UNCHANGED <<inIsr, last, lastSet>>
    /\ UNCHANGED <<csVars, nVars, mVars, iVars>>

(* The kernel's xTaskNotifyWait up to the point where the task blocks.     *)
kernel_wait_entry(duration) ==
    /\ dur' = duration
    /\ IF ucNotifyState # "RECEIVED"
       THEN /\ ulNotifiedValue' = AndNot(ulNotifiedValue, wait_clear_on_entry)
            /\ ucNotifyState' = "WAITING"
            /\ tpc' = IF TickTypeFrom(duration) > 0 THEN "blocked" ELSE "ready"
            /\ timedOut' = (TickTypeFrom(duration) = 0)
       ELSE /\ UNCHANGED <<ulNotifiedValue, ucNotifyState>>
            /\ tpc' = "ready"
            /\ timedOut' = FALSE

(* The task calls wait_notification(duration).                             *)
WaitNotification(duration) ==
    /\ tpc = "run"
    /\ kernel_wait_entry(duration)
    /\ anyDone' = FALSE
    /\ UNCHANGED <<inAny, wret, pend, since, pcN, wokenN, lastNotify>>
    /\ UNCHANGED <<csVars, yVars, mVars, iVars>>

(* The ticks of a bounded wait run out.                                    *)
Timeout ==
    /\ tpc = "blocked"
    /\ TickTypeFrom(dur) # portMAX_DELAY
    /\ tpc' = "ready"
    /\ timedOut' = TRUE
    /\ UNCHANGED <<ulNotifiedValue, ucNotifyState, inAny, dur, wret, anyDone, pend,
                   since, pcN, wokenN, lastNotify>>
    /\ UNCHANGED <<csVars, yVars, mVars, iVars>>

(* xTaskNotifyWait returns and wait_notification with it; inside           *)
(* wait_any_notification the loop then ends or goes round.                 *)
WaitReturn ==
    /\ tpc = "ready"
    /\ LET notified == ucNotifyState = "RECEIVED"
           notification == ulNotifiedValue
           r == wait_notification_ret(notified, notification)
       IN  /\ ulNotifiedValue' = IF notified
                                 THEN AndNot(ulNotifiedValue, wait_clear_on_exit)
                                 ELSE ulNotifiedValue
           /\ ucNotifyState' = "NOT_WAITING"
           /\ wret' = r
           /\ pend' = IF notified THEN 0 ELSE pend
           /\ since' = IF notified THEN FALSE ELSE since
           /\ IF inAny
              THEN IF wait_any_break(r)
                   THEN tpc' = "run" /\ inAny' = FALSE /\ anyDone' = TRUE
                   ELSE tpc' = "loop" /\ UNCHANGED <<inAny, anyDone>>
              ELSE tpc' = "run" /\ UNCHANGED <<inAny, anyDone>>
    /\ dur' = None
    /\ timedOut' = FALSE
    /\ UNCHANGED <<pcN, wokenN, lastNotify>>
    /\ UNCHANGED <<csVars, yVars, mVars, iVars>>

(* The task calls wait_any_notification().                                 *)
WaitAnyCall ==
    /\ tpc = "run"
    /\ tpc' = "loop"
    /\ inAny' = TRUE
    /\ anyDone' = FALSE
    /\ UNCHANGED <<ulNotifiedValue, ucNotifyState, dur, wret, timedOut, pend, since,
                   pcN, wokenN, lastNotify>>
    /\ UNCHANGED <<csVars, yVars, mVars, iVars>>

(* One turn of its loop: wait_notification(None).                          *)
WaitAnyLoop ==
    /\ tpc = "loop"
    /\ kernel_wait_entry(None)
    /\ UNCHANGED <<inAny, wret, anyDone, pend, since, pcN, wokenN, lastNotify>>
    /\ UNCHANGED <<csVars, yVars, mVars, iVars>>

InitN ==
    /\ ulNotifiedValue = 0
    /\ ucNotifyState = "NOT_WAITING"
    /\ tpc = "run"
    /\ inAny = FALSE
    /\ dur = None
    /\ wret = NoReturn
    /\ timedOut = FALSE
    /\ anyDone = FALSE
    /\ pend = 0
    /\ since = FALSE
    /\ pcN = [c \in Cores |-> "idle"]
    /\ wokenN = [c \in Cores |-> FALSE]
    /\ lastNotify = [isr |-> FALSE, woken |-> FALSE, calls |-> {}]

InitCS ==
    /\ mux = [m \in AllCS |-> CriticalSection_new]
    /\ nesting = [c \in Cores |-> 0]
    /\ intMask = [c \in Cores |-> FALSE]
    /\ savedInt = [c \in Cores |-> FALSE]
    /\ oldLevel = [c \in Cores |-> FALSE]
    /\ guards = [c \in Cores |-> <<>>]
    /\ pc = [c \in Cores |-> "run"]
    /\ target = [c \in Cores |-> Shared]
    /\ counter = 0
    /\ tmp = [c \in Cores |-> 0]
    /\ incs = [c \in Cores |-> 0]
    /\ entered = [c \in Cores |-> {}]
    /\ freePre = [c \in Cores |-> NoFree]

Init == InitCS /\ InitY /\ InitN /\ InitM /\ InitI

(* Critical sections, guards and free on the two cores.                    *)
Next ==
    \/ \E c \in Cores, cs \in StaticCS : Enter(c, cs)
    \/ \E c \in Cores : Acquire(c)
    \/ \E c \in Cores : Drop(c)
    \/ \E c \in Cores : IncRead(c)
    \/ \E c \in Cores : IncWrite(c)
    \/ \E c \in Cores : FreeCall(c)
    \/ \E c \in Cores : FreeAcquire(c)
    \/ \E c \in Cores : FreeRunF(c)
    \/ \E c \in Cores : FreeReturn(c)

Spec == Init /\ [][Next]_vars

(* The yielder slot used from tasks and ISRs on the two cores.             *)
NextYield ==
    \/ \E c \in Cores : IsrEnter(c)
    \/ \E c \in Cores : IsrExit(c)
    \/ \E c \in Cores, yielder \in Options : SetYielder(c, yielder)
    \/ \E c \in Cores : GetYielder(c)
    \/ \E c \in Cores : DoYield(c)

SpecYield == Init /\ [][NextYield]_vars

(* Notifiers on the two cores and the notified task. The task, once it can *)
(* run, is eventually scheduled.                                           *)
NextNotify ==
    \/ \E c \in Cores : NIsrEnter(c)
    \/ \E c \in Cores : NIsrExit(c)
    \/ \E c \in Cores, yielder \in {None, Some(1)} : NSetYielder(c, yielder)
    \/ \E c \in Cores, notification \in Words : NotifyCall(c, notification)
    \/ \E c \in Cores : NotifyReturn(c)
    \/ \E duration \in Durations : WaitNotification(duration)
    \/ Timeout
    \/ WaitReturn
    \/ WaitAnyCall
    \/ WaitAnyLoop

SpecNotify ==
    Init /\ [][NextNotify]_vars /\ WF_vars(WaitReturn) /\ WF_vars(WaitAnyLoop)

(* Tasks and ISRs of the two cores locking and unlocking one RawMutex.     *)
NextMutex ==
    \/ \E c \in Cores : Lock(c)
    \/ \E c \in Cores : LockReturn(c)
    \/ \E c \in Cores : Unlock(c)
    \/ \E c \in Cores : MIsrEnter(c)
    \/ \E c \in Cores : MIsrExit(c)

SpecMutex == Init /\ [][NextMutex]_vars

(* ISRs of the two cores, each using the slot in save/restore pairs.       *)
NextIsr ==
    \/ \E c \in Cores : HandlerEnter(c)
    \/ \E c \in Cores : HandlerExit(c)
    \/ \E c \in Cores : Install(c)
    \/ \E c \in Cores : NestedWork(c)
    \/ \E c \in Cores : Restore(c)
    \/ \E c \in Cores : CaptureCall(c)
    \/ \E c \in Cores : CaptureReturn(c)
    \/ \E c \in Cores : CaptureAbort(c)

SpecIsr == Init /\ [][NextIsr]_vars

(* Cores entering and releasing the static instances; each core keeps      *)
(* running, so a spin that could succeed from some point on does succeed.  *)
NextProgress ==
    \/ \E c \in Cores, cs \in StaticCS : Enter(c, cs)
    \/ \E c \in Cores : Acquire(c)
    \/ \E c \in Cores : Drop(c)

SpecProgress ==
    Init /\ [][NextProgress]_vars /\ \A c \in Cores : WF_vars(Acquire(c))

----------------------------------------------------------------------------
(* Properties of the critical-section specification (Spec) *)

Inside(c, cs) == cs \in Range(guards[c])
Spinning(c) == pc[c] \in {"spin", "free_spin"}

(* C1: two cores are never both between enter and guard release of the     *)
(* same CriticalSection instance, and the counter incremented only inside  *)
(* the Shared section equals the number of increments made whenever no     *)
(* increment is in progress.                                               *)
C1_MutualExclusion ==
    /\ \A cs \in StaticCS : ~(Inside(0, cs) /\ Inside(1, cs))
    /\ (\A c \in Cores : pc[c] # "inc") => counter = incs[0] + incs[1]

C1_Witness ==
    /\ Inside(0, Shared)
    /\ pc[1] = "spin" /\ target[1] = Shared
    /\ incs[0] >= 1 /\ incs[1] >= 1
    /\ counter = incs[0] + incs[1]

(* C2 as stated: while a core still holds a guard, interrupts stay masked  *)
(* and every instance it entered in this nest stays owned by it; with no   *)
(* guard left, interrupts are enabled and it owns no instance.             *)
C2_Original ==
    \A c \in Cores :
        pc[c] = "run" =>
            IF guards[c] # <<>>
            THEN intMask[c] /\ \A cs \in entered[c] \cap StaticCS : mux[cs].owner = c
            ELSE ~intMask[c] /\ \A cs \in StaticCS : mux[cs].owner # c

(* C2, amended: interrupts on a core are masked exactly while it holds a   *)
(* guard or is inside enter; the kernel nesting count is the number of     *)
(* live guards; an instance is owned by the core exactly while the core    *)
(* holds at least one guard on it, with a lock count equal to the number   *)
(* of those guards; and an enter on an instance the core already owns can  *)
(* complete at once.                                                       *)
C2_Nesting ==
    \A c \in Cores :
        /\ nesting[c] = Len(guards[c])
        /\ intMask[c] <=> (guards[c] # <<>> \/ Spinning(c))
        /\ \A cs \in AllCS :
              /\ mux[cs].owner = c <=> Inside(c, cs)
              /\ Inside(c, cs) => mux[cs].count = Occurrences(guards[c], cs)
        /\ (pc[c] = "spin" /\ Inside(c, target[c])) => ENABLED Acquire(c)

C2_Witness ==
    /\ pc[0] = "run"
    /\ guards[0] = <<"A">>
    /\ entered[0] = {"A", "B"}
    /\ intMask[0]
    /\ mux["B"].owner = 1 /\ mux["B"].count = 3
    /\ guards[1] = <<"B", "B", "B">>

(* C12: when free ends, by return or by unwinding, the core's critical     *)
(* nesting count, interrupt mask and number of live guards are what they   *)
(* were when free was called, and the section free built is free again.    *)
C12_FreeReleases ==
    [][\A c \in Cores :
         (pc[c] \in {"free_ret", "free_unwind"} /\ pc'[c] = "run") =>
             /\ nesting'[c] = freePre[c].nesting
             /\ intMask'[c] = freePre[c].mask
             /\ Len(guards'[c]) = freePre[c].depth
             /\ mux'[free_cs(c)] = CriticalSection_new]_vars

C12_Witness ==
    /\ pc[0] = "free_unwind"
    /\ freePre[0] = [nesting |-> 2, mask |-> TRUE, depth |-> 2]
    /\ pc[1] = "free_ret"
    /\ freePre[1] = NoFree

(* C14: an enter never waits for the other core unless that core is inside *)
(* the same instance; two cores can be inside two different instances at   *)
(* the same time.                                                          *)
C14_Independent ==
    \A c \in Cores :
        (pc[c] = "spin" /\ ~Inside(1 - c, target[c])) => ENABLED Acquire(c)

C14_Witness ==
    /\ pc[0] = "run" /\ Inside(0, "A")
    /\ pc[1] = "run" /\ Inside(1, "B")

Blocked(c) == pc[c] = "spin" /\ ~ENABLED Acquire(c)
Wanted(c) == IF pc[c] = "spin" THEN Append(guards[c], target[c]) ELSE guards[c]
InOrder(c) ==
    \A i, j \in 1..Len(Wanted(c)) : i < j => ~(Wanted(c)[i] = "B" /\ Wanted(c)[j] = "A")

(* C18 as stated: the two cores are never both stuck in enter.             *)
C18_Original ==
    ~(Blocked(0) /\ Blocked(1))

(* C18, amended: when both cores nest the instances in the same order (A   *)
(* before B), they are never both stuck in enter.                          *)
C18_SameOrder ==
    (\A c \in Cores : InOrder(c)) => ~(Blocked(0) /\ Blocked(1))

C18_Witness ==
    /\ guards[0] = <<"A", "B">> /\ pc[0] = "run"
    /\ guards[1] = <<>> /\ Blocked(1) /\ target[1] = "A"

(* C15: a set_isr_yielder made in task context returns None and leaves the *)
(* slot as it was; one made in ISR context leaves its argument in the slot *)
(* and returns the value the slot held just before.                        *)
C15_SetOverride ==
    [][\A c \in Cores :
         (last'[c] # last[c] /\ last'[c].op = "set") =>
             IF inIsr[c]
             THEN /\ ISR_YIELDER' = to_ptr(lastSet'[c][1])
                  /\ last'[c].ret = from_ptr(ISR_YIELDER)
             ELSE /\ ISR_YIELDER' = ISR_YIELDER
                  /\ last'[c].ret = None]_vars

C15_Witness ==
    /\ last[1].op = "set" /\ ~last[1].isr /\ last[1].slot = 2 /\ last[1].ret = None
    /\ last[0].op = "set" /\ last[0].isr /\ last[0].slot = 2 /\ last[0].ret = Some(2)
    /\ ISR_YIELDER = 1

(* C16 as stated: if no core holds an instance forever, every core that    *)
(* spins in enter eventually acquires.                                     *)
C16_Original ==
    (\A cs \in StaticCS : \A c \in Cores : []<>(mux[cs].owner # c)) =>
        \A c \in Cores : (pc[c] = "spin") ~> (pc[c] # "spin")

(* C16, amended: no core spins in enter forever on an instance that, from  *)
(* some point on, the other core never holds.                              *)
C16_Progress ==
    \A c \in Cores : ~<>[](pc[c] = "spin" /\ mux[target[c]].owner # 1 - c)

C16_Witness ==
    /\ pc[1] = "spin" /\ target[1] = "A" /\ guards[1] = <<>>
    /\ mux["A"] = [owner |-> 0, count |-> 2]

(* C13: while a lock of the mutex is outstanding on a core (lock returned, *)
(* unlock not yet called) the mutex's section is owned by that core, once  *)
(* per outstanding lock, and the core's interrupts are masked; the other   *)
(* core has no outstanding lock; no ISR runs on a core whose task has an   *)
(* outstanding lock; and a core spinning in lock is only ever waiting for  *)
(* the other core, never for a lock made on its own core.                  *)
C13_MutexHeld ==
    \A c \in Cores :
        /\ locked[c] # <<>> =>
               /\ mux[RawMutex_new] = [owner |-> c, count |-> Len(locked[c])]
               /\ nesting[c] = Len(locked[c])
               /\ intMask[c]
               /\ locked[1 - c] = <<>>
        /\ inIsr[c] => "task" \notin Range(locked[c])
        /\ pc[c] = "lock_spin" => (ENABLED LockReturn(c) \/ locked[1 - c] # <<>>)

C13_Witness ==
    /\ inIsr[0] /\ locked[0] = <<"isr", "isr">> /\ pc[0] = "run"
    /\ ~inIsr[1] /\ pc[1] = "lock_spin"

(* C17: when every ISR restores what it saved, the slot is empty whenever  *)
(* no core is in an ISR.                                                   *)
C17_SlotRestored ==
    (\A c \in Cores : ~inIsr[c]) => ISR_YIELDER = NULL

CaptureReturns(c) == cap[c].state = "cb" /\ cap'[c].state = "idle"

(* C11: when a capture_yield_signal returns, the value it returns is TRUE  *)
(* exactly when cb asked for a yield, no kernel yield was made while cb    *)
(* ran, and the slot holds what it held just before the call (the value    *)
(* the call's swap returned); a call made in task context aborts.          *)
C11_CaptureYieldSignal ==
    [][\A c \in Cores :
         /\ CaptureReturns(c) =>
                /\ capture_yield_signal(c) = cap[c].yielded
                /\ ~cap[c].kernel
                /\ ISR_YIELDER' = to_ptr(frames[c][cap[c].depth].prev)
         /\ (~inIsr[c] /\ cap'[c] # cap[c]) => cap'[c].state = "aborted"]_vars

(* C3: the closures of two free(f) calls on the two cores never run at the *)
(* same time.                                                              *)
C3_FreeExclusive ==
    ~(pc[0] = "free_f" /\ pc[1] = "free_f")

----------------------------------------------------------------------------
(* Properties of the yielder specification (SpecYield) *)

(* C4: a do_yield made in ISR context invokes exactly the override that    *)
(* was in the slot when it looked, or, the slot being empty, exactly the   *)
(* kernel's ISR-context yield.                                             *)
C4_IsrYieldRouting ==
    \A c \in Cores :
        (last[c].op = "yield" /\ last[c].isr) =>
            last[c].calls = IF last[c].slot # NULL
                            THEN {Call("yielder", last[c].slot)}
                            ELSE {KernelIsrYield}

C4_Witness ==
    /\ last[0].op = "yield" /\ last[0].isr /\ last[0].slot = 2
    /\ last[1].op = "yield" /\ last[1].isr /\ last[1].slot = NULL

(* C5: in task context get_isr_yielder returns None and do_yield makes     *)
(* exactly the kernel's task-context yield, whatever the slot holds.       *)
C5_TaskContext ==
    \A c \in Cores :
        ~last[c].isr =>
            /\ last[c].op = "get" => last[c].ret = None
            /\ last[c].op = "yield" => last[c].calls = {KernelTaskYield}

C5_Witness ==
    /\ last[0].op = "get" /\ ~last[0].isr /\ last[0].slot # NULL
    /\ inIsr[1] /\ last[1].op = "set" /\ last[1].isr

(* C6: in an ISR, a get_isr_yielder that follows the ISR's own             *)
(* set_isr_yielder(v) returns v, and a do_yield that follows its           *)
(* set_isr_yielder(None) makes the kernel's ISR-context yield.             *)
C6_SetThenGet ==
    \A c \in Cores :
        (last[c].isr /\ last[c].after # <<>>) =>
            /\ last[c].op = "get" => last[c].ret = last[c].after[1]
            /\ (last[c].op = "yield" /\ last[c].after[1] = None) =>
                   last[c].calls = {KernelIsrYield}

----------------------------------------------------------------------------
(* Properties of the notification specification (SpecNotify) *)

NotifyReturns(c) == pcN[c] = "called" /\ pcN'[c] = "idle"
WaitReturns == tpc = "ready" /\ tpc' # "ready"

(* C7: the kernel call of notify ORs the bits into the task's word; a      *)
(* notify made in ISR context that was told a higher priority task woke    *)
(* makes, before it returns, exactly the yield do_yield routes to (the     *)
(* installed override, else the kernel's ISR-context yield); any other     *)
(* notify makes no yield.                                                  *)
C7_NotifyYields ==
    /\ [][\A c \in Cores :
            (pcN[c] = "idle" /\ pcN'[c] = "called") =>
                \E b \in Words : /\ pend' = Or(pend, b)
                                 /\ ulNotifiedValue' = Or(ulNotifiedValue, b)]_vars
    /\ [][\A c \in Cores :
            NotifyReturns(c) =>
                lastNotify'.calls =
                    IF inIsr[c] /\ wokenN[c]
                    THEN IF ISR_YIELDER # NULL
                         THEN {Call("yielder", ISR_YIELDER)}
                         ELSE {KernelIsrYield}
                    ELSE {}]_vars

C7_Witness ==
    /\ lastNotify.isr /\ lastNotify.woken
    /\ lastNotify.calls = {Call("yielder", 1)}
    /\ ulNotifiedValue = AllBits

(* C8: the task's word always holds the OR of all bits notified since its  *)
(* last successful wait, and a wait_notification that returns after any    *)
(* notify returns Some of exactly that OR.                                 *)
C8_NoBitLost ==
    /\ [](ulNotifiedValue = pend)
    /\ [][(WaitReturns /\ since) => wret' = Some(pend)]_vars

C8_Witness ==
    /\ tpc = "run"
    /\ wret = Some(AllBits)
    /\ pend = 0
    /\ pcN[0] = "idle" /\ pcN[1] = "idle"

(* C9: wait_notification returns None exactly when no notify happened      *)
(* since the last successful wait, which is only after its ticks ran out,  *)
(* and then leaves the word as it was; otherwise it returns Some of the    *)
(* word and leaves the word 0.                                             *)
C9_WaitResult ==
    [][WaitReturns =>
          /\ wret' = None <=> ~since
          /\ wret' = None => (timedOut /\ ulNotifiedValue' = ulNotifiedValue)
          /\ wret' # None => (wret' = Some(ulNotifiedValue) /\ ulNotifiedValue' = 0)]_vars

C9_Witness ==
    /\ tpc = "run"
    /\ wret = None
    /\ ulNotifiedValue = 0
    /\ ucNotifyState = "NOT_WAITING"

(* C10: wait_any_notification returns only on a wait_notification that     *)
(* returned a non-zero value, and once a non-zero word is pending while    *)
(* the task is inside it, it eventually returns.                           *)
C10_WaitAny ==
    /\ [](anyDone => (wret # None /\ wret[1] # 0))
    /\ [][(inAny /\ ~inAny') => (WaitReturns /\ wret' # None /\ wret'[1] # 0)]_vars
    /\ ((inAny /\ ulNotifiedValue # 0) ~> anyDone)

C10_Witness ==
    /\ anyDone
    /\ tpc = "run"
    /\ wret = Some(1)

====
